---- MODULE Spec2Model ----
(***************************************************************************)
(* A model of glog.py: the GlogFormatter, the rate/sampling filter         *)
(* (log_wrapper.conditional_log) and the check primitives with their       *)
(* failure reporting (check_failed, format_stacktrace).                    *)
(*                                                                         *)
(* Texts are sequences of tokens: a token is a literal piece of text or    *)
(* one printf-style directive, so that Python's  msg % args  can be        *)
(* computed.  A written line keeps the severity letter, the file and line  *)
(* of its "<filename>:<line>]" field and the message; the timestamp and    *)
(* the process id are left out.                                            *)
(***************************************************************************)
EXTENDS Integers, Sequences, FiniteSets, TLC

VARIABLES
    level,      \* logger.level of the root logger
    sink,       \* lines written by the StreamHandler, oldest first
    stack,      \* the call stack, outermost frame first
    pc,         \* position of the running check call
    call,       \* the running (or last) call and its arguments
    cf,         \* locals of check_failed
    exc,        \* exception that reached the caller of the last call
    sink0,      \* Len(sink) when the running call was entered
    counter,    \* counter[w]: the defaultdict(int) of wrapper w
    outcome,    \* how the last conditional_log call ended
    ncalls,     \* calls made in a repeated-call scenario
    nemit,      \* of these, calls passed on to the logging module
    tpc,        \* per thread: position inside conditional_log
    tloc,       \* per thread: locals of conditional_log
    raced       \* a thread tested the counter while another thread was
                \* between its own test and its store

vars == <<level, sink, stack, pc, call, cf, exc, sink0, counter, outcome,
          ncalls, nemit, tpc, tloc, raced>>

checkVars == <<stack, pc, cf, exc, sink0>>
logVars == <<counter, outcome>>
scenarioVars == <<ncalls, nemit>>
threadVars == <<tpc, tloc, raced>>

(***************************************************************************)
(* Bounds of the model.                                                    *)
(***************************************************************************)
MaxDepth == 2      \* frames of application code above a check call
MaxSpan == 1       \* integer operands are 5 .. 5 + MaxSpan
MaxSink == 2       \* a new operation starts only while Len(sink) < MaxSink
MaxFirstN == 2     \* first_n ranges over -1 .. MaxFirstN
MaxCalls == 5      \* calls of one repeated-call scenario
MaxThreadCalls == 2 \* calls each thread makes in the concurrent scenario

(***************************************************************************)
(* Python values and str().                                                *)
(***************************************************************************)
None == [tag |-> "none", v |-> 0]
IntVal(i) == [tag |-> "int", v |-> i]
BoolVal(b) == [tag |-> "bool", v |-> IF b THEN 1 ELSE 0]

PyStr(x) ==
    CASE x.tag = "none" -> "None"
      [] x.tag = "bool" -> (IF x.v = 1 THEN "True" ELSE "False")
      [] OTHER -> ToString(x.v)

Truthy(x) == ~(x.tag = "none" \/ x.v = 0)

(***************************************************************************)
(* Texts and printf-style formatting.                                      *)
(***************************************************************************)
SubstDirectives == {"%s"}          \* conversions that accept any object
BadDirectives == {"% 2,"}          \* "unsupported format character"

RECURSIVE Join(_)
Join(toks) == IF toks = <<>> THEN "" ELSE Head(toks) \o Join(Tail(toks))

\* fmt % args, where args is the sequence of arguments (a non-tuple
\* argument such as None counts as one argument).
RECURSIVE PyModFrom(_, _, _)
PyModFrom(toks, args, out) ==
    IF toks = <<>>
    THEN IF args # <<>>
         THEN [kind |-> "TypeError", val |-> ""]   \* not all arguments converted
         ELSE [kind |-> "ok", val |-> out]
    ELSE LET t == Head(toks) IN
         IF t \in SubstDirectives \cup BadDirectives
         THEN IF args = <<>>
              THEN [kind |-> "TypeError", val |-> ""]  \* not enough arguments
              ELSE IF t \in BadDirectives
                   THEN [kind |-> "ValueError", val |-> ""]
                   ELSE PyModFrom(Tail(toks), Tail(args), out \o PyStr(Head(args)))
         ELSE PyModFrom(Tail(toks), args, out \o t)

PyMod(toks, args) == PyModFrom(toks, args, "")

format_message(record) ==
    LET r == PyMod(record.msg, record.args) IN
    IF r.kind = "TypeError"
    THEN [kind |-> "ok", val |-> Join(record.msg)]
    ELSE r

(***************************************************************************)
(* GlogFormatter and the handler.                                          *)
(***************************************************************************)
DEBUG == 10
INFO == 20
WARNING == 30
ERROR == 40
CRITICAL == 50

LEVEL_MAP(levelno) ==
    CASE levelno = CRITICAL -> "F"
      [] levelno = ERROR -> "E"
      [] levelno = WARNING -> "W"
      [] levelno = INFO -> "I"
      [] levelno = DEBUG -> "D"
      [] OTHER -> "?"

\* inspect.stack()[-1]: the outermost frame of the running call stack.
CallerFrameRecord(stk) == stk[1]

\* GlogFormatter.format: the record's own pathname and lineno are not used.
Format(record, stk) ==
    LET frame_info == CallerFrameRecord(stk)
        m == format_message(record)
    IN  [kind |-> m.kind,
         line |-> [sev |-> LEVEL_MAP(record.levelno),
                   file |-> frame_info.file,
                   line |-> frame_info.line,
                   msg |-> m.val]]

\* handler.handle(record): StreamHandler.emit formats and writes; an
\* exception of the formatter goes to handleError and nothing is written.
Handle(snk, record, stk) ==
    LET r == Format(record, stk) IN
    IF r.kind = "ok" THEN Append(snk, r.line) ELSE snk

makeRecord(levelno, fn, lno, msg, args) ==
    [levelno |-> levelno, pathname |-> fn, lineno |-> lno, msg |-> msg, args |-> args]

\* Logger.debug/info/...: the root logger drops records below its level.
LoggerLog(snk, lvl, levelno, msg, args, stk) ==
    IF levelno >= lvl
    THEN Handle(snk, makeRecord(levelno, stk[Len(stk)].file, stk[Len(stk)].line, msg, args), stk)
    ELSE snk

(***************************************************************************)
(* Call stacks.                                                            *)
(***************************************************************************)
PlainSrc == <<"work(x)">>
SrcTexts == { PlainSrc, <<"work(x ", "% 2,", " 0)">>, <<"work('", "%s", "')">> }

GlogFile == <<"usr", "lib", "site-packages", "glog.py">>

AppFrame(i, src) ==
    IF i = 1
    THEN [file |-> <<"srv", "app", "main.py">>, func |-> "<module>", line |-> 9, src |-> src]
    ELSE [file |-> <<"srv", "app", "jobs", "steps.py">>, func |-> "step",
          line |-> 40 + i, src |-> src]

\* The stacks application code calls glog from: 1 .. MaxDepth frames, at
\* most one of them with a directive in its source text.
AppStacks ==
    UNION { { [i \in 1..d |-> AppFrame(i, srcs[i])] :
                srcs \in { f \in [1..d -> SrcTexts] :
                             Cardinality({ i \in 1..d : f[i] # PlainSrc }) <= 1 } }
            : d \in 1..MaxDepth }

MainStack == << AppFrame(1, <<"main()">>) >>

\* Line of the check_failed(message) call inside each primitive.
PrimLine(prim) ==
    CASE prim = "check" -> 255
      [] prim = "check_eq" -> 263
      [] prim = "check_ne" -> 271
      [] prim = "check_le" -> 279
      [] prim = "check_ge" -> 287
      [] prim = "check_lt" -> 295
      [] prim = "check_gt" -> 303
      [] prim = "check_notnone" -> 311

PrimFrame(prim) ==
    [file |-> GlogFile, func |-> prim, line |-> PrimLine(prim),
     src |-> <<"check_failed(message)">>]

CheckFailedFrame ==
    [file |-> GlogFile, func |-> "check_failed", line |-> 224,
     src |-> <<"stack = traceback.extract_stack()">>]

\* traceback.extract_stack() inside check_failed: every frame down to
\* check_failed itself.
extract_stack(stk) == stk

basename(path) == path[Len(path)]

\* format_stacktrace: one text per frame, in stack order.
format_stacktrace(stk) ==
    [i \in 1..Len(stk) |->
        << "\t" \o basename(stk[i].file) \o "::" \o stk[i].func \o ":"
           \o ToString(stk[i].line) \o "\t" >> \o stk[i].src]

\* stack[0:-1]: only the innermost frame is dropped.
TrimStack_one(stk) == SubSeq(stk, 1, Len(stk) - 1)

\* stack[0:-2]
TrimStack(stk) == SubSeq(stk, 1, Len(stk) - 2)

(***************************************************************************)
(* The check primitives.                                                   *)
(***************************************************************************)
BinaryPrims == {"check_eq", "check_ne", "check_le", "check_ge", "check_lt", "check_gt"}
Prims == BinaryPrims \cup {"check", "check_notnone"}

Operands == { IntVal(i) : i \in 5 .. 5 + MaxSpan }
Conditions == { BoolVal(TRUE), BoolVal(FALSE), IntVal(0), None }
Objects == Operands \cup { IntVal(0), None }

NoMessage == [given |-> FALSE, text |-> <<>>]
Message(text) == [given |-> TRUE, text |-> text]
Messages == { NoMessage, Message(<<"boom">>), Message(<<"rate 5", "%s", " done">>),
              Message(<<"load ", "% 2,", " high">>) }

\* check_le written with >= : equal operands fail.
Fails_le_strict(prim, a, b) ==
    CASE prim = "check" -> ~Truthy(a)
      [] prim = "check_eq" -> a # b
      [] prim = "check_ne" -> a = b
      [] prim = "check_le" -> a.v >= b.v
      [] prim = "check_ge" -> a.v < b.v
      [] prim = "check_lt" -> a.v >= b.v
      [] prim = "check_gt" -> a.v <= b.v
      [] prim = "check_notnone" -> a = None

\* The condition under which the primitive calls check_failed.
Fails(prim, a, b) ==
    CASE prim = "check" -> ~Truthy(a)
      [] prim = "check_eq" -> a # b
      [] prim = "check_ne" -> a = b
      [] prim = "check_le" -> a.v > b.v
      [] prim = "check_ge" -> a.v < b.v
      [] prim = "check_lt" -> a.v >= b.v
      [] prim = "check_gt" -> a.v <= b.v
      [] prim = "check_notnone" -> a = None

DefaultMessage(prim, a, b) ==
    CASE prim = "check" -> <<"Check failed.">>
      [] prim = "check_eq" -> <<"Check failed: " \o PyStr(a) \o " != " \o PyStr(b)>>
      [] prim = "check_ne" -> <<"Check failed: " \o PyStr(a) \o " == " \o PyStr(b)>>
      [] prim = "check_le" -> <<"Check failed: " \o PyStr(a) \o " > " \o PyStr(b)>>
      [] prim = "check_ge" -> <<"Check failed: " \o PyStr(a) \o " < " \o PyStr(b)>>
      [] prim = "check_lt" -> <<"Check failed: " \o PyStr(a) \o " >= " \o PyStr(b)>>
      [] prim = "check_gt" -> <<"Check failed: " \o PyStr(a) \o " <= " \o PyStr(b)>>
      [] prim = "check_notnone" -> <<"Check failed: Object is None.">>

FailureMessage(prim, a, b, message) ==
    IF message.given THEN message.text ELSE DefaultMessage(prim, a, b)

NoCall == [kind |-> "none"]
NoLocals == [message |-> <<>>, stack |-> <<>>, stacktrace_lines |-> <<>>,
             filename |-> <<>>, line_num |-> 0, i |-> 0]
NoException == [type |-> "none", message |-> <<>>]

ArgsOf(prim) ==
    IF prim \in BinaryPrims THEN Operands \X Operands
    ELSE IF prim = "check" THEN Conditions \X {None}
    ELSE Objects \X {None}

\* A check primitive is called from application code.  A passing check
\* returns at once; a failing one enters check_failed, which captures and
\* trims the stack (lines 224-227).
CallCheck ==
    /\ pc = "idle"
    /\ Len(sink) < MaxSink
    /\ \E prim \in Prims, message \in Messages, app \in AppStacks :
       \E args \in ArgsOf(prim) :
          LET a == args[1]
              b == args[2]
          IN
          /\ call' = [kind |-> "check", prim |-> prim, a |-> a, b |-> b, message |-> message]
          /\ sink0' = Len(sink)
          /\ exc' = NoException
          /\ IF Fails(prim, a, b)
             THEN LET full == extract_stack(app \o <<PrimFrame(prim), CheckFailedFrame>>)
                      trimmed == TrimStack(full)
                  IN  /\ stack' = full
                      /\ cf' = [message |-> FailureMessage(prim, a, b, message),
                                stack |-> trimmed,
                                stacktrace_lines |-> format_stacktrace(trimmed),
                                filename |-> trimmed[Len(trimmed)].file,
                                line_num |-> trimmed[Len(trimmed)].line,
                                i |-> 0]
                      /\ pc' = "critical"
             ELSE /\ stack' = app
                  /\ cf' = NoLocals
                  /\ pc' = "returned"
    /\ UNCHANGED <<level, sink, logVars, scenarioVars, threadVars>>

\* Lines 232-235: the CRITICAL record.
EmitCritical ==
    /\ pc = "critical"
    /\ sink' = Handle(sink, makeRecord(CRITICAL, cf.filename, cf.line_num, cf.message, <<None>>), stack)
    /\ pc' = "header"
    /\ UNCHANGED <<level, stack, call, cf, exc, sink0, logVars, scenarioVars, threadVars>>

\* Lines 237-240: the DEBUG record "Check failed here:".
EmitHeader ==
    /\ pc = "header"
    /\ sink' = Handle(sink, makeRecord(DEBUG, cf.filename, cf.line_num,
                                       <<"Check failed here:">>, <<None>>), stack)
    /\ pc' = "trace"
    /\ UNCHANGED <<level, stack, call, cf, exc, sink0, logVars, scenarioVars, threadVars>>

\* Lines 241-245: one DEBUG record per rendered frame.
EmitTraceLine ==
    /\ pc = "trace"
    /\ cf.i < Len(cf.stacktrace_lines)
    /\ sink' = Handle(sink, makeRecord(DEBUG, cf.filename, cf.line_num,
                                       cf.stacktrace_lines[cf.i + 1], <<None>>), stack)
    /\ cf' = [cf EXCEPT !.i = cf.i + 1]
    /\ UNCHANGED <<level, stack, pc, call, exc, sink0, logVars, scenarioVars, threadVars>>

\* Line 246: the bare raise re-raises FailedCheckException(message), which
\* leaves check_failed and the primitive and reaches the caller.
Raise ==
    /\ pc = "trace"
    /\ cf.i = Len(cf.stacktrace_lines)
    /\ exc' = [type |-> "FailedCheckException", message |-> cf.message]
    /\ stack' = SubSeq(stack, 1, Len(stack) - 2)
    /\ pc' = "raised"
    /\ UNCHANGED <<level, sink, call, cf, sink0, logVars, scenarioVars, threadVars>>

\* The caller goes on (after a return, or after catching the exception).
Resume ==
    /\ pc \in {"returned", "raised"}
    /\ pc' = "idle"
    /\ stack' = <<>>
    /\ cf' = NoLocals
    /\ call' = NoCall
    /\ exc' = NoException
    /\ sink0' = 0
    /\ UNCHANGED <<level, sink, logVars, scenarioVars, threadVars>>

Levels == {DEBUG, WARNING, CRITICAL}

\* setLevel(newlevel), called from the main module.
setLevel ==
    /\ pc = "idle"
    /\ Len(sink) < MaxSink
    /\ \E newlevel \in Levels :
          /\ level' = newlevel
          /\ sink' = LoggerLog(sink, newlevel, DEBUG,
                               <<"Log level set to ", "%s">>, <<IntVal(newlevel)>>, MainStack)
    /\ UNCHANGED <<stack, pc, call, cf, exc, sink0, logVars, scenarioVars, threadVars>>

(***************************************************************************)
(* The rate/sampling filter: log_wrapper and conditional_log.              *)
(***************************************************************************)
\* The module attributes made by log_wrapper that the model calls, and the
\* logging function each one passes its calls to.
Wrappers == {"info", "warning"}

LevelOf(name) == IF name = "info" THEN INFO ELSE WARNING

LogTexts == { <<"disk full">>, <<"retry ", "%s">> }

\* hashlib.md5(args[0].encode("utf-8")).hexdigest()
md5hex(str) ==
    CASE str = "disk full" -> "0ce552d660ffab58758aa955f2c9cd7d"
      [] str = "retry %s" -> "b1a6922be640aace4a9afb7c4af5fdb6"

Key(text) == md5hex(Join(text))

Samplings == {0, 50, 100}
\* random.random() * 100 lies in [0, 100)
Draws == {0, 99}
FirstNs == -1 .. MaxFirstN
NoDraw == -1

\* defaultdict(int): a missing key reads as 0 (and the read stores it).
EmptyDict == [k \in {} |-> 0]
Get(d, k) == IF k \in DOMAIN d THEN d[k] ELSE 0
Put(d, k, v) == [x \in DOMAIN d \cup {k} |-> IF x = k THEN v ELSE d[x]]

\* Line 98-99: the sampling test drops the call.
SampledOut(sampling, draw) == sampling < 100 /\ sampling < draw

\* first_n >= 0 : zero limits too.
Limited_nonneg(first_n) == first_n >= 0

\* Line 101: the first_n branch is taken.
Limited(first_n) == first_n > 0

\* counter[key] >= first_n : one emission fewer.
OverLimit_ge(c, first_n) == c >= first_n

\* Line 103: the first_n test drops the call.
OverLimit(c, first_n) == c > first_n

\* The increment is lost.
Incremented_lost(c) == c

\* counter[key] += 2
Incremented_twice(c) == c + 2

\* Line 105: counter[key] += 1
Incremented(c) == c + 1

\* One counter shared by every wrapper.
StoreCounter_shared(ctr, name, key, v) == [w \in DOMAIN ctr |-> Put(ctr[w], key, v)]

\* Line 105: the counter the wrapper `name` stores into.
StoreCounter(ctr, name, key, v) == [ctr EXCEPT ![name] = Put(@, key, v)]

\* Line 107: getattr(logging, name)(*args), called from the main module.
LoggingCall(snk, lvl, name, text) ==
    LoggerLog(snk, lvl, LevelOf(name), text, <<>>, MainStack)

LogCall(name, text, sampling, first_n, draw) ==
    [kind |-> "log", name |-> name, text |-> text, sampling |-> sampling,
     first_n |-> first_n, draw |-> draw]

\* One whole call of conditional_log (lines 94-107), single-threaded.
ConditionalLog(name, text, sampling, first_n, draw) ==
    /\ call' = LogCall(name, text, sampling, first_n, draw)
    /\ IF SampledOut(sampling, draw)
       THEN /\ outcome' = "sampled"
            /\ UNCHANGED <<counter, sink>>
       ELSE IF Limited(first_n)
       THEN LET key == Key(text)
                c == Get(counter[name], key)
            IN  IF OverLimit(c, first_n)
                THEN /\ outcome' = "capped"
                     /\ counter' = StoreCounter(counter, name, key, c)
                     /\ UNCHANGED sink
                ELSE /\ outcome' = "logged"
                     /\ counter' = StoreCounter(counter, name, key, Incremented(c))
                     /\ sink' = LoggingCall(sink, level, name, text)
       ELSE /\ outcome' = "logged"
            /\ sink' = LoggingCall(sink, level, name, text)
            /\ UNCHANGED counter

\* The arguments of a call; random.random() is drawn only when sampling < 100.
CallInputs ==
    { in \in [name : Wrappers, text : LogTexts, sampling : Samplings,
              first_n : FirstNs, draw : Draws \cup {NoDraw}] :
        (in.draw = NoDraw) <=> (in.sampling >= 100) }

\* Application code calls a leveled log function.
Log ==
    /\ Len(sink) < MaxSink
    /\ \E in \in CallInputs :
          ConditionalLog(in.name, in.text, in.sampling, in.first_n, in.draw)
    /\ UNCHANGED <<level, checkVars, scenarioVars, threadVars>>

\* Application code repeats one call: same function, text, sampling, first_n.
RepeatLog ==
    /\ ncalls < MaxCalls
    /\ \E draw \in Draws \cup {NoDraw} :
          /\ (draw = NoDraw) <=> (call.sampling >= 100)
          /\ ConditionalLog(call.name, call.text, call.sampling, call.first_n, draw)
    /\ ncalls' = ncalls + 1
    /\ nemit' = IF outcome' = "logged" THEN nemit + 1 ELSE nemit
    /\ UNCHANGED <<level, checkVars, threadVars>>

(***************************************************************************)
(* conditional_log run by two threads: the same function, the same text    *)
(* and first_n, sampling left at 100.  A thread can be preempted between   *)
(* the test of line 103, the load and the store of line 105, and the       *)
(* logging call of line 107.                                               *)
(***************************************************************************)
Threads == {1, 2}

InWindow(t) == tpc[t] \in {"load", "store"}

\* Lines 95-104: the arguments, the key and the test of the counter.
TTest(t) ==
    /\ tpc[t] = "idle"
    /\ tloc[t].calls < MaxThreadCalls
    /\ LET key == Key(call.text)
           c == Get(counter[call.name], key)
       IN  /\ counter' = StoreCounter(counter, call.name, key, c)
           /\ tloc' = [tloc EXCEPT ![t].calls = @ + 1, ![t].key = key]
           /\ IF OverLimit(c, call.first_n)
              THEN UNCHANGED <<tpc, raced>>
              ELSE /\ tpc' = [tpc EXCEPT ![t] = "load"]
                   /\ raced' = (raced \/ \E u \in Threads \ {t} : InWindow(u))
    /\ UNCHANGED <<level, sink, checkVars, call, outcome, scenarioVars>>

\* Line 105, first half: read counter[key].
TLoad(t) ==
    /\ tpc[t] = "load"
    /\ tloc' = [tloc EXCEPT ![t].tmp = Get(counter[call.name], tloc[t].key)]
    /\ tpc' = [tpc EXCEPT ![t] = "store"]
    /\ UNCHANGED <<level, sink, checkVars, call, logVars, scenarioVars, raced>>

\* Line 105, second half: write counter[key].
TStore(t) ==
    /\ tpc[t] = "store"
    /\ counter' = StoreCounter(counter, call.name, tloc[t].key, Incremented(tloc[t].tmp))
    /\ tpc' = [tpc EXCEPT ![t] = "log"]
    /\ UNCHANGED <<level, sink, checkVars, call, outcome, scenarioVars, tloc, raced>>

\* Line 107: the logging call (the handler locks around the write).
TLog(t) ==
    /\ tpc[t] = "log"
    /\ sink' = LoggingCall(sink, level, call.name, call.text)
    /\ nemit' = nemit + 1
    /\ tpc' = [tpc EXCEPT ![t] = "idle"]
    /\ UNCHANGED <<level, checkVars, call, logVars, ncalls, tloc, raced>>

(***************************************************************************)
(* Specifications.                                                         *)
(***************************************************************************)
NoThreads == [t \in {} |-> 0]
FreshCounters == [w \in Wrappers |-> EmptyDict]

InitCommon ==
    /\ level = WARNING
    /\ sink = <<>>
    /\ stack = <<>>
    /\ pc = "idle"
    /\ cf = NoLocals
    /\ exc = NoException
    /\ sink0 = 0
    /\ counter = FreshCounters
    /\ outcome = "none"
    /\ ncalls = 0
    /\ nemit = 0
    /\ raced = FALSE

\* The check primitives and setLevel.
Init ==
    /\ InitCommon
    /\ call = NoCall
    /\ tpc = NoThreads
    /\ tloc = NoThreads

Next ==
    \/ CallCheck
    \/ EmitCritical
    \/ EmitHeader
    \/ EmitTraceLine
    \/ Raise
    \/ Resume
    \/ setLevel

Spec == Init /\ [][Next]_vars

\* Any sequence of calls of the leveled log functions.
LogNext == Log

LogSpec == Init /\ [][LogNext]_vars

\* One call repeated.
RepeatInit ==
    /\ InitCommon
    /\ \E name \in Wrappers, text \in LogTexts, sampling \in Samplings, first_n \in FirstNs :
          call = LogCall(name, text, sampling, first_n, NoDraw)
    /\ tpc = NoThreads
    /\ tloc = NoThreads

RepeatNext == RepeatLog

RepeatSpec == RepeatInit /\ [][RepeatNext]_vars

\* Two threads repeating one call with first_n >= 1.
ThreadInit ==
    /\ InitCommon
    /\ \E text \in LogTexts, n \in 1 .. MaxFirstN :
          call = LogCall("warning", text, 100, n, NoDraw)
    /\ tpc = [t \in Threads |-> "idle"]
    /\ tloc = [t \in Threads |-> [calls |-> 0, key |-> "", tmp |-> 0]]

ThreadNext == \E t \in Threads : TTest(t) \/ TLoad(t) \/ TStore(t) \/ TLog(t)

ThreadSpec == ThreadInit /\ [][ThreadNext]_vars

(***************************************************************************)
(* Properties.                                                             *)
(***************************************************************************)
Reporting == pc \in {"critical", "header", "trace", "raised"}
InCheckFailed == pc \in {"critical", "header", "trace"}

\* The lines written since the running call was entered.
Emitted == SubSeq(sink, sink0 + 1, Len(sink))

\* The frame that called the check primitive.
CallerFrame == IF pc = "raised" THEN stack[Len(stack)] ELSE stack[Len(stack) - 2]

\* The frames of the caller's stack: what is left without the two frames
\* of the check machinery.
CallerStack == IF pc = "raised" THEN stack ELSE SubSeq(stack, 1, Len(stack) - 2)

\* The text of the trace line of one frame.
FrameLine(f) ==
    "\t" \o f.file[Len(f.file)] \o "::" \o f.func \o ":" \o ToString(f.line) \o "\t"
    \o Join(f.src)

SevMsg(lines) == [i \in 1..Len(lines) |-> [sev |-> lines[i].sev, msg |-> lines[i].msg]]

ExpectedReport ==
    << [sev |-> "F", msg |-> Join(cf.message)], [sev |-> "D", msg |-> "Check failed here:"] >>
    \o [i \in 1..Len(CallerStack) |-> [sev |-> "D", msg |-> FrameLine(CallerStack[i])]]

\* C1: when check_failed has raised, the lines written by the call are
\* exactly: the CRITICAL line with the failure message, the DEBUG line
\* "Check failed here:", one DEBUG line per frame of the caller's stack in
\* stack order; the exception carries the message; and nothing is raised
\* while check_failed is still writing.
C1_ReportThenRaise ==
    /\ pc = "raised" =>
          /\ SevMsg(Emitted) = ExpectedReport
          /\ exc = [type |-> "FailedCheckException", message |-> cf.message]
    /\ InCheckFailed => exc = NoException

\* What the claim says of each primitive: when it raises.
Violated(prim, a, b) ==
    CASE prim = "check" -> a \in {BoolVal(FALSE), IntVal(0), None}
      [] prim = "check_eq" -> ~(a.v = b.v)
      [] prim = "check_ne" -> a.v = b.v
      [] prim = "check_le" -> ~(a.v <= b.v)
      [] prim = "check_ge" -> ~(a.v >= b.v)
      [] prim = "check_lt" -> ~(a.v < b.v)
      [] prim = "check_gt" -> ~(a.v > b.v)
      [] prim = "check_notnone" -> a.tag = "none"

\* The relation a default message states: the one that made the check fail.
FailedRelation(prim) ==
    CASE prim = "check_eq" -> "!="
      [] prim = "check_ne" -> "=="
      [] prim = "check_le" -> ">"
      [] prim = "check_ge" -> "<"
      [] prim = "check_lt" -> ">="
      [] prim = "check_gt" -> "<="

DocumentedDefault(prim, a, b) ==
    CASE prim = "check" -> "Check failed."
      [] prim = "check_notnone" -> "Check failed: Object is None."
      [] OTHER -> "Check failed: " \o ToString(a.v) \o " " \o FailedRelation(prim)
                  \o " " \o ToString(b.v)

\* C2: a primitive raises exactly when its relation is violated; a passing
\* check raises nothing and writes nothing; without a message argument the
\* exception carries the documented default, so check_le(6, 5) raises with
\* "Check failed: 6 > 5".
C2_RaisesIffViolated ==
    call.kind = "check" =>
       /\ pc = "returned" =>
             /\ ~Violated(call.prim, call.a, call.b)
             /\ Emitted = <<>>
             /\ exc = NoException
       /\ Reporting => Violated(call.prim, call.a, call.b)
       /\ pc = "raised" =>
             /\ exc.type = "FailedCheckException"
             /\ ~call.message.given =>
                   Join(exc.message) = DocumentedDefault(call.prim, call.a, call.b)
             /\ (call.prim = "check_le" /\ call.a = IntVal(6) /\ call.b = IntVal(5)
                 /\ ~call.message.given) => exc.message = <<"Check failed: 6 > 5">>

C2_Witness ==
    /\ pc = "raised"
    /\ call.kind = "check"
    /\ call.prim = "check_le" /\ call.a = IntVal(6) /\ call.b = IntVal(5)
    /\ ~call.message.given
    /\ Join(exc.message) = "Check failed: 6 > 5"

\* C3: every line a failed check writes carries the file and line of the
\* frame that called the check primitive.
C3_LinesCarryCallSite ==
    Reporting =>
       \A i \in 1..Len(Emitted) :
          /\ Emitted[i].file = CallerFrame.file
          /\ Emitted[i].line = CallerFrame.line

\* What C4 has in common with its amended form: inside check_failed the
\* two innermost frames are check_failed and the primitive, and the
\* rendered trace is the rest of the stack, frame by frame.
TraceOmitsMachinery ==
    /\ stack[Len(stack)].func = "check_failed"
    /\ stack[Len(stack) - 1].func = call.prim
    /\ Len(cf.stacktrace_lines) = Len(stack) - 2
    /\ \A i \in 1..Len(cf.stacktrace_lines) :
          Join(cf.stacktrace_lines[i]) = FrameLine(stack[i])

\* C4 as claimed: the rendered trace omits exactly the two innermost
\* frames, and its first line is the line of the caller of the check.
C4_FirstLineIsCaller ==
    InCheckFailed =>
       /\ TraceOmitsMachinery
       /\ Join(cf.stacktrace_lines[1]) = FrameLine(CallerFrame)

\* C4 amended: the rendered trace omits exactly the two innermost frames;
\* its last line is the line of the caller of the check and its first line
\* the line of the outermost frame.
C4_LastLineIsCaller ==
    InCheckFailed =>
       /\ TraceOmitsMachinery
       /\ Join(cf.stacktrace_lines[Len(cf.stacktrace_lines)]) = FrameLine(CallerFrame)
       /\ Join(cf.stacktrace_lines[1]) = FrameLine(stack[1])

C4_Witness ==
    /\ pc = "trace"
    /\ Len(stack) >= 4
    /\ cf.i = Len(cf.stacktrace_lines)
    /\ cf.stacktrace_lines[1] # cf.stacktrace_lines[Len(cf.stacktrace_lines)]

Min(a, b) == IF a <= b THEN a ELSE b

IsLog == call.kind = "log"
CallKey == Key(call.text)
CallCount == Get(counter[call.name], CallKey)

\* C5: one call repeated with sampling 100 and first_n = N >= 1: of the
\* first n calls exactly min(n, N + 1) are passed on, the last call was
\* dropped by the first_n test exactly when more than N + 1 calls were
\* made, and the counter of the text is the number of calls passed on.
C5_FirstNPlusOne ==
    (IsLog /\ call.sampling = 100 /\ call.first_n >= 1) =>
       /\ nemit = Min(ncalls, call.first_n + 1)
       /\ CallCount = nemit
       /\ ncalls >= 1 => ((outcome = "capped") <=> (ncalls > call.first_n + 1))
       /\ ncalls >= 1 => ((outcome = "logged") <=> (ncalls <= call.first_n + 1))

C5_Witness ==
    /\ IsLog /\ call.sampling = 100 /\ call.first_n >= 2
    /\ ncalls = call.first_n + 3
    /\ nemit = call.first_n + 1
    /\ outcome = "capped"

\* C6: whatever the draw, a call with sampling = 0 is not passed on, and a
\* call with sampling = 100 is passed on unless the first_n test drops it.
C6_SamplingExtremes ==
    (IsLog /\ outcome # "none") =>
       /\ call.sampling = 0 => outcome # "logged"
       /\ call.sampling = 100 => outcome \in {"logged", "capped"}

Keys == { Key(text) : text \in LogTexts }

\* C7 as claimed: the counters are one mapping, whichever function counts.
C7_OneSharedMapping ==
    \A w1, w2 \in Wrappers : \A k \in Keys : Get(counter[w1], k) = Get(counter[w2], k)

\* C7 amended: each leveled function has a mapping of its own, keyed by the
\* hash of the text: a call changes no count but the one of its own
\* function and text, and its first_n test reads that count alone.
C7_MappingPerFunction ==
    [][ /\ \A w \in Wrappers : \A k \in Keys :
              Get(counter'[w], k) # Get(counter[w], k) =>
                 (w = call'.name /\ k = Key(call'.text))
        /\ (call'.first_n > 0 /\ outcome' # "sampled") =>
              ((outcome' = "capped") <=>
                 (Get(counter[call'.name], Key(call'.text)) > call'.first_n))
      ]_vars

C7_Witness ==
    /\ IsLog /\ outcome = "logged" /\ call.first_n >= 1
    /\ \E w \in Wrappers \ {call.name} : Get(counter[w], CallKey) > call.first_n

\* Calls that passed the first_n test: written, or about to be.
Passed == nemit + Cardinality({ t \in Threads : tpc[t] \in {"load", "store", "log"} })

\* C8: with two threads more than N + 1 calls can pass the first_n test,
\* and only by the race: as long as no thread tested the counter while
\* the other was between its test and its store, at most N + 1 pass.
C8_ExcessOnlyByRace == (~raced) => Passed <= call.first_n + 1

C8_Witness ==
    /\ raced
    /\ nemit > call.first_n + 1

\* C9: a call the sampling test drops changes neither the counters (not
\* even by reading one) nor the sink; a call the first_n test drops changes
\* neither; a call with first_n <= 0 changes no counter; and a count only
\* ever changes by +1, in a call with first_n > 0 that is passed on.
C9_SuppressedCallsChangeNothing ==
    [][ /\ (call'.sampling < 100 /\ call'.draw > call'.sampling) =>
              (outcome' = "sampled" /\ counter' = counter /\ sink' = sink)
        /\ outcome' \in {"sampled", "capped"} => (counter' = counter /\ sink' = sink)
        /\ call'.first_n <= 0 => counter' = counter
        /\ \A w \in Wrappers : \A k \in Keys :
              Get(counter'[w], k) # Get(counter[w], k) =>
                 /\ Get(counter'[w], k) = Get(counter[w], k) + 1
                 /\ call'.first_n > 0
                 /\ outcome' = "logged"
      ]_vars

C9_Witness ==
    /\ IsLog /\ outcome = "sampled" /\ call.first_n > 0
    /\ CallKey \notin DOMAIN counter[call.name]
    /\ \E w \in Wrappers : DOMAIN counter[w] # {}

\* C10 as claimed: a call with first_n = 0 is dropped once the counter of
\* its text exceeds 0.
C10_ZeroIsACap ==
    [][ (call'.first_n = 0 /\ call'.sampling = 100
         /\ Get(counter[call'.name], Key(call'.text)) > 0) => outcome' = "capped" ]_vars

\* C10 amended: only a positive first_n is a cap: a call with first_n <= 0
\* is never dropped by the first_n test, so with sampling 100 it is always
\* passed on.
C10_NonPositiveIsUnlimited ==
    (IsLog /\ outcome # "none" /\ call.first_n <= 0) =>
       /\ outcome # "capped"
       /\ call.sampling = 100 => outcome = "logged"

C10_Witness ==
    /\ IsLog /\ call.first_n = 0 /\ outcome = "logged"
    /\ CallCount > 0

====
